---------------------------- MODULE Spec2Model ----------------------------
(***************************************************************************)
(* A model of the decorator algorithms and of the mirror classes of the    *)
(* javascript-decorators repository.                                       *)
(*                                                                         *)
(* Part A, the decorated property definition, in its three renderings:     *)
(*   "main"      the Main Algorithm           (src/src/mirror.d.ts 1020-1047) *)
(*   "pde"       PropertyDefinitionEvaluation (src/src/mirror.d.ts 1120-1158) *)
(*   "decorate"  the decorate utility         (src/src/mirror.d.ts 1295-1334) *)
(* Part B, the mirror classes (src/src/mirrors, src/src/v0/polyfill.ts).    *)
(*                                                                         *)
(* JavaScript values are strings here: "undefined", "null", "true",        *)
(* "false", the names of functions and of objects.                         *)
(***************************************************************************)
EXTENDS Naturals, Sequences, FiniteSets

----------------------------------------------------------------------------
(* Bounds of the model. *)

\* the longest decorator list [d1, ..., dn]
MaxDecorators == 2
\* what one decorator call may do before it returns: calls of a thunk and
\* Object.defineProperty on the target, together
MaxEffects == 1
\* calls of property.get(obj) after the definition has completed
MaxGetterCalls == 1

----------------------------------------------------------------------------
(* Values. *)

Undefined == "undefined"
Null == "null"
\* [[Value]] not populated / EMPTY_SENTINEL
Empty == "empty"
\* a member that the object does not have ('initializer' in descriptor is false)
Absent == "absent"

\* the property keys a PropertyName expression can evaluate to
Keys == {"k1", "k2"}
\* the values an AssignmentExpression can evaluate to
Vals == {"v1", "v2"}

\* the two expressions of a PropertyDefinition, each reified into a thunk
Thunks == {"nameThunk", "exprThunk"}
\* a name function a decorator supplies in place of the name thunk: () => "k2"
NameFns == {"nameThunk", "nameFn"}
\* what property.initializer can be at the end: the thunk (callable), null,
\* an object with a get member, an object with neither get nor set, and a
\* primitive that is not callable, not an object and not null
Callables == {"exprThunk"}
Objects == {"accG", "objEmpty"}
Initializers == Callables \cup Objects \cup {Null, "prim"}

Algs == {"main", "pde", "decorate"}
\* decorate's type argument
Types == {"field", "property", "method", "accessor"}

VARIABLES
  alg,        \* which rendering of the algorithm runs
  strict,     \* decorate only: evaluated as module (strict) code or as a sloppy script
  ptype,      \* decorate only: the type argument
  n,          \* the number of decorators in the list d1..dn
  pc,         \* the position of the algorithm
  step,       \* the last part of the algorithm that ran: "loop", "read", "name", "last"
  desc,       \* the current decorator descriptor (decoratorDescriptor / the reduce accumulator)
  fresh,      \* the number of descriptor objects allocated by decorators
  initDesc,   \* the descriptor the loop started from
  calls,      \* the decorators called so far, in the order of the calls
  lastArg,    \* the descriptor passed in the latest decorator call
  rets,       \* the number of decorator calls that have completed
  lastRet,    \* how the latest of them completed: [type, undefined, left, value]
  effects,    \* what the running decorator has done so far (bounded by MaxEffects)
  thunkVal,   \* [[Value]] of each thunk
  evals,      \* per thunk: the evaluations of its expression that completed normally
  returned,   \* per thunk: the values its calls have returned
  algEvals,   \* evaluations started by the algorithm itself: {[thunk, ncalls]}
  userAbrupt, \* a decorator, a decorator expression or an expression evaluation threw
  propName,   \* the evaluated property key
  value,      \* the result of calling the initializer
  initCalls,  \* how often the algorithm called the initializer
  props,      \* the own properties of the object / target
  fields,     \* the fields declared through Reflect.defineField
  propsAtLoopEnd, \* props as the decorators left them
  via,        \* the primitive that installed the property
  result,     \* the completion of the definition
  getterCalls \* calls of property.get made after the definition

defVars == <<alg, strict, ptype, n, step, pc, desc, fresh, initDesc, calls, lastArg,
             rets, lastRet, effects,
             thunkVal, evals, returned, algEvals, userAbrupt,
             propName, value, initCalls, props, fields, propsAtLoopEnd, via,
             result, getterCalls>>

----------------------------------------------------------------------------
(* Descriptors.  A decorator descriptor is the record                      *)
(*   id             the identity of the object                             *)
(*   enumerable, configurable, writable   "true", "false" or "undefined"   *)
(*   hasProperty    whether it has a 'property' member                     *)
(*   name, initializer   property.name and property.initializer            *)
(*   topInitializer the descriptor's own 'initializer' member, or Absent   *)
(*   topAccessor    whether the descriptor itself has a 'get' or 'set'     *)

\* PropertyDefinitionDescriptor(nameThunk, valueThunk): an object with the
\* members name, initializer, get and set, and no others
PropertyDefinitionDescriptor ==
  [id |-> 0, enumerable |-> Undefined, configurable |-> Undefined,
   writable |-> Undefined, hasProperty |-> FALSE, name |-> Undefined,
   initializer |-> Undefined, topInitializer |-> "exprThunk",
   topAccessor |-> TRUE]

\* initialDescriptor of PropertyDefinitionEvaluation
initialDescriptor ==
  [id |-> 0, enumerable |-> "true", configurable |-> "true",
   writable |-> "true", hasProperty |-> TRUE, name |-> "nameThunk",
   initializer |-> "exprThunk", topInitializer |-> Absent,
   topAccessor |-> FALSE]

\* DESCRIPTOR_DEFAULTS[type]
DESCRIPTOR_DEFAULTS(type) ==
  CASE type = "method"   -> [enumerable |-> "false", configurable |-> "true", writable |-> "true"]
    [] type = "field"    -> [enumerable |-> "true", configurable |-> "true", writable |-> "true"]
    [] type = "property" -> [enumerable |-> "true", configurable |-> "true", writable |-> "true"]
    [] type = "accessor" -> [enumerable |-> "true", configurable |-> "true", writable |-> Undefined]

\* Property(name, initializer): { name: () => name, initializer, get, set }
Property(initializer) ==
  [name |-> "nameThunk", initializer |-> initializer]

\* decorate, its first statement:
\* Object.assign({ type, hint, property }, DESCRIPTOR_DEFAULTS[type])
decorateDesc(type, property) ==
  [id |-> 0, enumerable |-> DESCRIPTOR_DEFAULTS(type).enumerable,
   configurable |-> DESCRIPTOR_DEFAULTS(type).configurable,
   writable |-> DESCRIPTOR_DEFAULTS(type).writable, hasProperty |-> TRUE,
   name |-> property.name, initializer |-> property.initializer,
   topInitializer |-> Absent, topAccessor |-> FALSE]


\* ToBoolean of an attribute value
ToBoolean(a) == IF a = "true" THEN "true" ELSE "false"

\* what a decorator makes of the object PropertyDefinitionDescriptor built,
\* which is the property itself, when it returns a descriptor around it:
\* { enumerable: true, configurable: true, writable: true, property: descriptor }
WellFormed(d) ==
  IF d.hasProperty THEN d
  ELSE [d EXCEPT !.enumerable = "true", !.configurable = "true",
                 !.writable = "true", !.hasProperty = TRUE,
                 !.name = "nameThunk", !.initializer = d.topInitializer,
                 !.topInitializer = Absent, !.topAccessor = FALSE]

\* the changes a decorator makes to a descriptor
PropertyEdits ==
  {"configurable:false", "name:nameFn", "initializer:null",
   "initializer:accG", "initializer:objEmpty", "initializer:prim"}
\* changes of the descriptor's own initializer, get and set members, which
\* only decorate reads
TopEdits == {"top:initializer", "top:null", "top:accessor"}
Edits == {"none"} \cup PropertyEdits \cup TopEdits

Edit(e, d) ==
  CASE e = "none" -> d
    [] e = "configurable:false" -> [d EXCEPT !.configurable = "false"]
    [] e = "name:nameFn" -> [d EXCEPT !.name = "nameFn"]
    [] e = "initializer:null" -> [d EXCEPT !.initializer = Null]
    [] e = "initializer:accG" -> [d EXCEPT !.initializer = "accG"]
    [] e = "initializer:objEmpty" -> [d EXCEPT !.initializer = "objEmpty"]
    [] e = "initializer:prim" -> [d EXCEPT !.initializer = "prim"]
    \* descriptor.initializer = descriptor.property.initializer
    [] e = "top:initializer" -> [d EXCEPT !.topInitializer = d.initializer]
    \* descriptor.initializer = null, as the reader for shorthand properties does
    [] e = "top:null" -> [d EXCEPT !.topInitializer = Null]
    \* descriptor.get = ...
    [] e = "top:accessor" -> [d EXCEPT !.topAccessor = TRUE]

----------------------------------------------------------------------------
(* Completions and thunks. *)

Normal(v) == [type |-> "normal", value |-> v]
Throw(v) == [type |-> "throw", value |-> v]

\* GetValue(Evaluate(expression)): the expression yields one of its values,
\* not always the same one, or completes abruptly
Evaluate(t) ==
  IF t = "nameThunk"
    THEN {Normal(k) : k \in Keys} \cup {Throw("Error")}
    ELSE {Normal(v) : v \in Vals} \cup {Throw("Error")}

\* a thunk made with its expression evaluated already
EvaluatedThunk == "v1"

\* Thunk(Expression): a new thunk, [[Value]] not populated
Thunk == Empty

\* a [[Call]] that evaluates the expression whatever [[Value]] holds
UnmemoizedCall(slot, c) ==
  [completion |-> c,
   slot |-> IF c.type = "normal" THEN c.value ELSE slot,
   evaluated |-> TRUE]

\* the Thunk exotic object's [[Call]], and the function Thunk returns in the
\* pseudo-code: slot is [[Value]], c the completion of evaluating the
\* expression should it be evaluated
ThunkCall(slot, c) ==
  IF slot # Empty
    THEN [completion |-> Normal(slot), slot |-> slot, evaluated |-> FALSE]
    ELSE [completion |-> c,
          slot |-> IF c.type = "normal" THEN c.value ELSE Empty,
          evaluated |-> TRUE]

\* the functions of Property(name, initializer) in the decorate utility:
\* () => name, which returns the name it closes over, and the arrow the
\* desugaring passes as initializer, evaluated at every call
ArrowCall(t, slot, c) ==
  IF t = "nameThunk"
    THEN [completion |-> Normal("k1"), slot |-> slot, evaluated |-> FALSE]
    ELSE [completion |-> c, slot |-> slot, evaluated |-> TRUE]

\* Call(f) for a thunk of the running definition
CallOf(t, c) ==
  IF alg = "decorate" THEN ArrowCall(t, thunkVal[t], c)
                      ELSE ThunkCall(thunkVal[t], c)

\* the bookkeeping of one call of thunk t; byAlgorithm tells the calls the
\* algorithm makes itself from those a decorator or an accessor makes
ThunkEffects(t, c, byAlgorithm) ==
  LET r == CallOf(t, c) IN
  /\ thunkVal' = [thunkVal EXCEPT ![t] = r.slot]
  /\ evals' = [evals EXCEPT ![t] =
                 @ + (IF r.evaluated /\ r.completion.type = "normal" THEN 1 ELSE 0)]
  /\ returned' = [returned EXCEPT ![t] =
                 @ \cup (IF r.completion.type = "normal" THEN {r.completion.value} ELSE {})]
  /\ algEvals' = IF byAlgorithm /\ r.evaluated
                   THEN algEvals \cup {[thunk |-> t, ncalls |-> Len(calls)]}
                   ELSE algEvals

NoThunkEffects == UNCHANGED <<thunkVal, evals, returned, algEvals>>

----------------------------------------------------------------------------
(* The properties of the object. *)

AbsentProp ==
  [kind |-> "absent", value |-> Undefined, get |-> Undefined, set |-> Undefined,
   enumerable |-> "false", configurable |-> "false", writable |-> "false"]

\* { value, enumerable, configurable, writable }
DataProp(v, d) ==
  [kind |-> "data", value |-> v, get |-> Undefined, set |-> Undefined,
   enumerable |-> ToBoolean(d.enumerable),
   configurable |-> ToBoolean(d.configurable),
   writable |-> ToBoolean(d.writable)]

\* { get, set, enumerable, configurable }
AccessorProp(g, s, d) ==
  [kind |-> "accessor", value |-> Undefined, get |-> g, set |-> s,
   enumerable |-> ToBoolean(d.enumerable),
   configurable |-> ToBoolean(d.configurable), writable |-> "false"]

\* whether the object accepts the definition: a configurable or missing
\* property takes any, a non-configurable one only what leaves it as it is
\* or makes a writable data property read-only or changes its value
Accepts(cur, new) ==
  \/ cur.kind = "absent"
  \/ cur.configurable = "true"
  \/ /\ new.configurable = "false"
     /\ new.enumerable = cur.enumerable
     /\ new.kind = cur.kind
     /\ \/ cur.kind = "accessor" /\ new.get = cur.get /\ new.set = cur.set
        \/ cur.kind = "data" /\ cur.writable = "true"
        \/ cur.kind = "data" /\ new.writable = "false" /\ new.value = cur.value

\* object.[[DefineOwnProperty]](key, new), the properties afterwards
DefineOwnProperty(ps, key, new) ==
  IF Accepts(ps[key], new) THEN [ps EXCEPT ![key] = new] ELSE ps

----------------------------------------------------------------------------
\* no decorator has completed yet
NoReturn(d) == [type |-> "none", undefined |-> FALSE, left |-> d, value |-> d]

(* The state after the thunks and the initial descriptor are made:         *)
(* steps 1-3 of the Main Algorithm, the first two statements of            *)
(* PropertyDefinitionEvaluation, the first statement of decorate.          *)

DefInit ==
  /\ alg \in Algs
  /\ strict \in (IF alg = "decorate" THEN BOOLEAN ELSE {FALSE})
  /\ ptype \in (IF alg = "decorate" THEN Types ELSE {"property"})
  /\ n \in 0..MaxDecorators
  /\ pc = "loop"
  /\ step = "loop"
  /\ desc \in (CASE alg = "main" -> {PropertyDefinitionDescriptor}
                 [] alg = "pde" -> {initialDescriptor}
                 [] alg = "decorate" ->
                      {decorateDesc(ptype, Property(i)) : i \in {"exprThunk", Null}})
  /\ fresh = 0
  /\ initDesc = desc
  /\ calls = << >>
  /\ lastArg = desc
  /\ rets = 0
  /\ lastRet = NoReturn(desc)
  /\ effects = 0
  /\ thunkVal = [t \in Thunks |-> Thunk]
  /\ evals = [t \in Thunks |-> 0]
  /\ returned = [t \in Thunks |-> {}]
  /\ algEvals = {}
  /\ userAbrupt = FALSE
  /\ propName = Undefined
  /\ value = Undefined
  /\ initCalls = 0
  /\ props = [k \in Keys |-> AbsentProp]
  /\ fields = [k \in Keys |-> AbsentProp]
  /\ propsAtLoopEnd = [k \in Keys |-> AbsentProp]
  /\ via = "none"
  /\ result = "running"
  /\ getterCalls = 0

\* the definition ends with completion r
Complete(r) ==
  /\ pc' = "done"
  /\ result' = r

----------------------------------------------------------------------------
(* The decorator loop: step 4 of the Main Algorithm,                       *)
(* decorators.reverse().reduce(...) in the pseudo-code and in decorate.    *)

\* the decorator called next when `called` of the n have been: reverse order
NextDecorator(count, called) == count - called

\* Evaluate(DecoratorExpression) completes abruptly: ReturnIfAbrupt
DecoratorExpressionAbrupt ==
  /\ pc = "loop" /\ Len(calls) < n
  /\ alg \in {"main", "pde"}
  /\ Complete("Error")
  /\ userAbrupt' = TRUE
  /\ NoThunkEffects
  /\ UNCHANGED <<alg, strict, ptype, n, step, desc, fresh, initDesc, calls, lastArg, rets, lastRet, effects,
                 propName, value, initCalls, props, fields, propsAtLoopEnd,
                 via, getterCalls>>

\* Call(decorator, [object, decoratorDescriptor]) begins
CallDecorator ==
  /\ pc = "loop" /\ Len(calls) < n
  /\ calls' = Append(calls, NextDecorator(n, Len(calls)))
  /\ lastArg' = desc
  /\ pc' = "inDecorator"
  /\ effects' = 0
  /\ NoThunkEffects
  /\ UNCHANGED <<alg, strict, ptype, n, step, desc, fresh, initDesc, rets, lastRet,
                 userAbrupt, propName, value, initCalls, props, fields,
                 propsAtLoopEnd, via, result, getterCalls>>

\* the thunks the descriptor d hands to a decorator
ThunksOf(d) ==
  IF d.hasProperty
    THEN ({d.name, d.initializer, d.topInitializer} \cap Thunks)
    ELSE Thunks

\* the running decorator calls a thunk of the descriptor it was given, as
\* reader calls name(); an abrupt completion leaves the decorator
DecoratorCallsThunk(t, c) ==
  /\ pc = "inDecorator" /\ effects < MaxEffects
  /\ t \in ThunksOf(desc)
  /\ c \in Evaluate(t)
  /\ ThunkEffects(t, c, FALSE)
  /\ IF CallOf(t, c).completion.type = "throw"
       THEN /\ Complete("Error")
            /\ userAbrupt' = TRUE
            /\ rets' = rets + 1
            /\ lastRet' = [type |-> "throw", undefined |-> FALSE,
                            left |-> desc, value |-> desc]
            /\ UNCHANGED effects
       ELSE /\ effects' = effects + 1
            /\ UNCHANGED <<pc, result, userAbrupt, rets, lastRet>>
  /\ UNCHANGED <<alg, strict, ptype, n, step, desc, fresh, initDesc, calls, lastArg,
                 propName, value, initCalls, props, fields, propsAtLoopEnd,
                 via, getterCalls>>

\* the running decorator installs an accessor beside the property, with the
\* enumerability and configurability of the descriptor, as reader does;
\* Object.defineProperty throws a TypeError when the target refuses
DecoratorDefines(k) ==
  /\ pc = "inDecorator" /\ effects < MaxEffects
  /\ LET new == AccessorProp("reader.get", Undefined, desc) IN
     IF Accepts(props[k], new)
       THEN /\ props' = [props EXCEPT ![k] = new]
            /\ effects' = effects + 1
            /\ UNCHANGED <<pc, result, userAbrupt, rets, lastRet>>
       ELSE /\ Complete("TypeError")
            /\ userAbrupt' = TRUE
            /\ rets' = rets + 1
            /\ lastRet' = [type |-> "throw", undefined |-> FALSE,
                            left |-> desc, value |-> desc]
            /\ UNCHANGED <<props, effects>>
  /\ NoThunkEffects
  /\ UNCHANGED <<alg, strict, ptype, n, step, desc, fresh, initDesc, calls, lastArg,
                 propName, value, initCalls, fields, propsAtLoopEnd, via,
                 getterCalls>>

\* the running decorator throws
DecoratorThrows ==
  /\ pc = "inDecorator"
  /\ Complete("Error")
  /\ userAbrupt' = TRUE
  /\ rets' = rets + 1
  /\ lastRet' = [type |-> "throw", undefined |-> FALSE,
                  left |-> desc, value |-> desc]
  /\ NoThunkEffects
  /\ UNCHANGED <<alg, strict, ptype, n, step, desc, fresh, initDesc, calls, lastArg,
                 effects, propName, value, initCalls, props, fields,
                 propsAtLoopEnd, via, getterCalls>>

\* step 4.3 of the Main Algorithm, the conditional of the reduce callback
\* of the pseudo-code, and applyDecorator: the descriptor for the next step
applyDecorator(possibleDescriptor, isUndefined, _descriptor) ==
  IF isUndefined THEN _descriptor ELSE possibleDescriptor

\* the edits the decorators of a run make to a copy of the descriptor
CopyEdits ==
  IF alg = "decorate" THEN {"none", "name:nameFn"} \cup TopEdits
                      ELSE {"none"} \cup PropertyEdits

\* the edits they make in place to the object d they were given
InPlaceEdits(d) ==
  IF alg = "decorate" THEN {"none", "top:null", "top:initializer"}
  ELSE IF d.hasProperty THEN {"none", "initializer:null"}
  ELSE {"none"}

\* The running decorator returns.  mode "undefined": it returns nothing;
\* "same": it returns the object it was given; in both it may first have
\* changed that object in place (edit e).  mode "fresh": it returns a new
\* object, a copy of the one it was given with edit e.
\* In decorate, applyDecorator and decorate assign the result to
\* `descriptor`, which neither declares: in module (strict) code the
\* assignment throws a ReferenceError once the decorator has returned.
DecoratorReturns(mode, e) ==
  /\ pc = "inDecorator"
  /\ mode \in {"undefined", "same", "fresh"}
  /\ e \in (IF mode = "fresh" THEN CopyEdits ELSE InPlaceEdits(desc))
  /\ LET left == IF mode = "fresh" THEN desc ELSE Edit(e, desc)
         ret == IF mode = "fresh"
                  THEN [Edit(e, WellFormed(desc)) EXCEPT !.id = fresh + 1]
                  ELSE left
     IN /\ rets' = rets + 1
        /\ lastRet' = [type |-> "normal", undefined |-> (mode = "undefined"),
                        left |-> left, value |-> ret]
        /\ fresh' = IF mode = "fresh" THEN fresh + 1 ELSE fresh
        /\ IF alg = "decorate" /\ strict
             THEN /\ desc' = left
                  /\ Complete("ReferenceError")
             ELSE /\ desc' = applyDecorator(ret, mode = "undefined", left)
                  /\ pc' = "loop"
                  /\ UNCHANGED result
  /\ NoThunkEffects
  /\ UNCHANGED <<alg, strict, ptype, n, step, initDesc, calls, lastArg, effects,
                 userAbrupt, propName, value, initCalls, props, fields,
                 propsAtLoopEnd, via, getterCalls>>

----------------------------------------------------------------------------
(* After the loop. *)

\* Steps 5-7 of the Main Algorithm (Get(decoratorDescriptor, 'property'),
\* Get(property, 'name'), Get(property, 'initializer')), the destructuring
\* of the pseudo-code and of decorate.  A descriptor without a 'property'
\* member makes the read of property.name a TypeError.  In decorate the
\* result of the reduce is assigned to the undeclared `descriptor` first.
ReadDescriptor ==
  /\ pc = "loop" /\ Len(calls) = n
  /\ step' = "read"
  /\ propsAtLoopEnd' = props
  /\ IF alg = "decorate" /\ strict THEN Complete("ReferenceError")
     ELSE IF ~desc.hasProperty THEN Complete("TypeError")
     ELSE pc' = "name" /\ UNCHANGED result
  /\ NoThunkEffects
  /\ UNCHANGED <<alg, strict, ptype, n, desc, fresh, initDesc, calls, lastArg,
                 rets, lastRet, effects, userAbrupt, propName, value,
                 initCalls, props, fields, via, getterCalls>>

\* propName = Call(updatedPropertyNameThunk)?, name = Call(property.name),
\* name = name(): the final name function is the thunk or a decorator's
CallName(c) ==
  /\ pc = "name"
  /\ c \in Evaluate("nameThunk")
  /\ step' = "name"
  /\ IF desc.name = "nameFn"
       THEN /\ propName' = "k2"
            /\ pc' = "finish"
            /\ NoThunkEffects
            /\ UNCHANGED <<result, userAbrupt>>
       ELSE /\ ThunkEffects("nameThunk", c, TRUE)
            /\ LET r == CallOf("nameThunk", c).completion IN
               IF r.type = "throw"
                 THEN /\ Complete("Error")
                      /\ userAbrupt' = TRUE
                      /\ UNCHANGED propName
                 ELSE /\ propName' = r.value
                      /\ pc' = "finish"
                      /\ UNCHANGED <<result, userAbrupt>>
  /\ UNCHANGED <<alg, strict, ptype, n, desc, fresh, initDesc, calls, lastArg,
                 rets, lastRet, effects, value, initCalls, props, fields,
                 propsAtLoopEnd, via, getterCalls>>

IsCallable(x) == x \in Callables

\* what the last steps come to: the completion, the properties and fields
\* afterwards, the value, the installing primitive, and whether the
\* initializer was called
Outcome(res, ps, fs, v, how, called) ==
  [result |-> res, props |-> ps, fields |-> fs, value |-> v, via |-> how,
   called |-> called]

\* last steps that define a data property for every initializer, null too
DefineAlways(d, key, ps, fs, r) ==
  Outcome("normal", DefineOwnProperty(ps, key, DataProp(Undefined, d)), fs,
          Undefined, "DefineOwnProperty", FALSE)

\* Steps 10-13 of the Main Algorithm; r is the completion of
\* Call(initializer) should it be called
MainSteps(d, key, ps, fs, r) ==
  IF IsCallable(d.initializer) THEN
    IF r.type = "throw" THEN Outcome("Error", ps, fs, Undefined, "none", TRUE)
    ELSE Outcome("normal", DefineOwnProperty(ps, key, DataProp(r.value, d)),
                 fs, r.value, "DefineOwnProperty", TRUE)
  ELSE IF d.initializer \in Objects THEN
    IF d.initializer = "objEmpty"
      THEN Outcome("TypeError", ps, fs, Undefined, "none", FALSE)
      ELSE Outcome("normal",
                   DefineOwnProperty(ps, key,
                       AccessorProp("initializer.get", Undefined, d)),
                   fs, Undefined, "DefineOwnProperty", FALSE)
  ELSE IF d.initializer = Null
    THEN Outcome("normal", ps, fs, Undefined, "none", FALSE)
  ELSE Outcome("TypeError", ps, fs, Undefined, "none", FALSE)

\* typeof 'initializer': the operand is the string literal
TypeofInitializerLiteral == "string"

\* The statements of PropertyDefinitionEvaluation after Call(property.name).
\* Both calls of Object.defineProperty name `obj`, which the function does
\* not bind (its parameter is `object`): evaluating it is a ReferenceError.
PropertyDefinitionEvaluation(d, key, ps, fs, r) ==
  IF d.initializer = Null THEN Outcome("normal", ps, fs, Undefined, "none", FALSE)
  ELSE IF TypeofInitializerLiteral = "function" THEN
    IF r.type = "throw" THEN Outcome("Error", ps, fs, Undefined, "none", TRUE)
    ELSE Outcome("ReferenceError", ps, fs, r.value, "none", TRUE)
  ELSE IF d.initializer \in Objects
    THEN Outcome("ReferenceError", ps, fs, Undefined, "none", FALSE)
  ELSE Outcome("TypeError", ps, fs, Undefined, "none", FALSE)

\* define(type, target, name, descriptor): Reflect.defineField for a field,
\* Object.defineProperty otherwise, which throws when the target refuses
define(type, key, ps, fs, new) ==
  IF type = "field"
    THEN Outcome("normal", ps, [fs EXCEPT ![key] = new], new.value,
                 "Reflect.defineField", TRUE)
  ELSE IF Accepts(ps[key], new)
    THEN Outcome("normal", [ps EXCEPT ![key] = new], fs, new.value,
                 "Object.defineProperty", TRUE)
  ELSE Outcome("TypeError", ps, fs, new.value, "none", TRUE)

\* The statements of decorate after name = name().  initializer, get and
\* set are read from the descriptor itself, not from descriptor.property.
\* Object.defineProperty with get and set beside writable is a TypeError.
decorate(type, d, key, ps, fs, r) ==
  IF d.topInitializer # Absent THEN
    IF d.topAccessor THEN Outcome("TypeError", ps, fs, Undefined, "none", FALSE)
    ELSE IF ~IsCallable(d.topInitializer)
      THEN Outcome("TypeError", ps, fs, Undefined, "none", FALSE)
    ELSE IF r.type = "throw"
      THEN Outcome("Error", ps, fs, Undefined, "none", TRUE)
    ELSE define(type, key, ps, fs, DataProp(r.value, d))
  ELSE IF d.topAccessor
    THEN Outcome("TypeError", ps, fs, Undefined, "none", FALSE)
  ELSE Outcome("TypeError", ps, fs, Undefined, "none", FALSE)

\* the last steps of the running rendering
LastSteps(r) ==
  CASE alg = "main" -> MainSteps(desc, propName, props, fields, r)
    [] alg = "pde" -> PropertyDefinitionEvaluation(desc, propName, props, fields, r)
    [] alg = "decorate" -> decorate(ptype, desc, propName, props, fields, r)

Finish(c) ==
  /\ pc = "finish"
  /\ c \in Evaluate("exprThunk")
  /\ step' = "last"
  /\ LET o == LastSteps(CallOf("exprThunk", c).completion) IN
     /\ Complete(o.result)
     /\ props' = o.props
     /\ fields' = o.fields
     /\ value' = o.value
     /\ via' = o.via
     /\ initCalls' = initCalls + (IF o.called THEN 1 ELSE 0)
     /\ userAbrupt' = (userAbrupt \/ o.result = "Error")
     /\ IF o.called THEN ThunkEffects("exprThunk", c, TRUE) ELSE NoThunkEffects
  /\ UNCHANGED <<alg, strict, ptype, n, desc, fresh, initDesc, calls, lastArg,
                 rets, lastRet, effects, propName, propsAtLoopEnd, getterCalls>>

\* The DecoratorGetter exotic object's [[Call]], property.get(obj) of the
\* pseudo-code: name = Call(this.[[Name]]), then Get(object, name).  The
\* descriptor outlives the definition, and so do calls of its getter.
DecoratorGetter(c) ==
  /\ pc = "done" /\ getterCalls < MaxGetterCalls
  /\ alg \in {"main", "pde"}
  /\ c \in Evaluate("nameThunk")
  /\ ThunkEffects("nameThunk", c, FALSE)
  /\ getterCalls' = getterCalls + 1
  /\ UNCHANGED <<alg, strict, ptype, n, step, pc, desc, fresh, initDesc, calls,
                 lastArg, rets, lastRet, effects, userAbrupt, propName, value, initCalls, props, fields,
                 propsAtLoopEnd, via, result>>

----------------------------------------------------------------------------
(* Part B: the mirrors.                                                    *)
(*                                                                         *)
(* A class mirror with the ObjectMirror of one class side                  *)
(* (src/src/mirrors/object.ts) and the constructor function mirror of      *)
(* src/src/v0/polyfill.ts.  mirrorState is Mirror.state, the state of the  *)
(* declaration the mirror stands for: "decorating", then "decorated".      *)

\* the constructor functions a class is given
Functions == {"f1", "f2"}
\* the instances constructed through the mirror
MaxInstances == 2

----------------------------------------------------------------------------
(* The native reflection operations the v0 mirrors call, on an ordinary    *)
(* object o = [props, extensible, proto] whose prototypes have no          *)
(* properties of their own.  Each gives [result, obj]: what the operation  *)
(* returns (or the error it throws) and the object afterwards.             *)

\* the prototypes an object is given
Protos == {Null, "protoA"}
\* the receiver argument: omitted, the target itself, another object
Receivers == {Absent, "target", "other"}
\* the newTarget argument: omitted, or a constructor
NewTargets == {Absent, "f1"}

Obj(ps, ext, pr) == [props |-> ps, extensible |-> ext, proto |-> pr]
Ret(r, o) == [result |-> r, obj |-> o]
BoolStr(b) == IF b THEN "true" ELSE "false"

\* a getter and a setter that use `this`, in strict code: called with the
\* receiver as this value
Getter(receiver) ==
  CASE receiver = "target" -> "v1"
    [] receiver = "other" -> "v2"
    [] OTHER -> "TypeError"
Setter(receiver) ==
  IF receiver \in {"target", "other"} THEN "true" ELSE "TypeError"

\* Reflect.get(target, propertyKey, receiver)
Reflect_get(o, k, receiver) ==
  LET p == o.props[k] IN
  CASE p.kind = "data" -> Ret(p.value, o)
    [] p.kind = "accessor" ->
         Ret(IF p.get = Undefined THEN Undefined ELSE Getter(receiver), o)
    [] OTHER -> Ret(Undefined, o)

\* Reflect.set(target, propertyKey, value, receiver): OrdinarySet, which
\* returns false for a receiver that is not an object
Reflect_set(o, k, v, receiver) ==
  LET p == o.props[k] IN
  IF p.kind = "accessor" THEN
    Ret(IF p.set = Undefined THEN "false" ELSE Setter(receiver), o)
  ELSE IF p.kind = "data" /\ p.writable = "false" THEN Ret("false", o)
  ELSE IF receiver = "other" THEN Ret("true", o)
  ELSE IF receiver # "target" THEN Ret("false", o)
  ELSE IF p.kind = "data"
    THEN Ret("true", [o EXCEPT !.props[k].value = v])
  ELSE IF o.extensible
    THEN Ret("true", [o EXCEPT !.props[k] =
                        DataProp(v, [enumerable |-> "true",
                                     configurable |-> "true",
                                     writable |-> "true"])])
  ELSE Ret("false", o)

\* Reflect.has(target, propertyKey)
Reflect_has(o, k) == Ret(BoolStr(o.props[k].kind # "absent"), o)

\* Reflect.deleteProperty(target, propertyKey)
Reflect_deleteProperty(o, k) ==
  IF o.props[k].kind = "absent" THEN Ret("true", o)
  ELSE IF o.props[k].configurable = "true"
    THEN Ret("true", [o EXCEPT !.props[k] = AbsentProp])
  ELSE Ret("false", o)

\* Reflect.ownKeys(target), the keys written as one string
Reflect_ownKeys(o) ==
  LET has(k) == o.props[k].kind # "absent" IN
  Ret(CASE has("k1") /\ has("k2") -> "[k1,k2]"
        [] has("k1") /\ ~has("k2") -> "[k1]"
        [] ~has("k1") /\ has("k2") -> "[k2]"
        [] OTHER -> "[]", o)

\* Reflect.isExtensible(target)
Reflect_isExtensible(o) == Ret(BoolStr(o.extensible), o)

\* Reflect.preventExtensions(target)
Reflect_preventExtensions(o) == Ret("true", [o EXCEPT !.extensible = FALSE])

\* Reflect.getPrototypeOf(target)
Reflect_getPrototypeOf(o) == Ret(o.proto, o)

\* Reflect.setPrototypeOf(target, proto): OrdinarySetPrototypeOf
Reflect_setPrototypeOf(o, pr) ==
  IF pr = o.proto THEN Ret("true", o)
  ELSE IF ~o.extensible THEN Ret("false", o)
  ELSE Ret("true", [o EXCEPT !.proto = pr])

\* Reflect.defineProperty(target, propertyKey, attributes): false when the
\* object refuses
Reflect_defineProperty(o, k, new) ==
  IF Accepts(o.props[k], new) /\ (o.props[k].kind # "absent" \/ o.extensible)
    THEN Ret("true", [o EXCEPT !.props[k] = new])
    ELSE Ret("false", o)

\* Reflect.apply(target, thisArgument, argumentsList) of a function that
\* returns its this value
Reflect_apply(f, thisArg) == thisArg

\* Reflect.construct(target, argumentsList, newTarget): a TypeError for a
\* newTarget that is no constructor, else a new object
Reflect_construct(f, newTarget) ==
  IF newTarget \in Functions THEN "object" ELSE "TypeError"

----------------------------------------------------------------------------
VARIABLES
  mirrorState,         \* Mirror.state
  target,              \* the own properties of ObjectMirror.object
  constructorFunction, \* ClassMirror.constructorFunction: null or a function
  instances,           \* the objects Reflect.construct has made
  lastOp,              \* the latest mirror operation: [op, state, result, changed],
                       \* with what the native operation gives for the same
                       \* arguments (native) and whether it leaves the
                       \* target in the same state (same)
  extensible,          \* whether the target is extensible
  proto,               \* the prototype of the target
  propertyTs,          \* which of the two versions of mirrors/property.ts is built
  made                 \* the latest mirror made: its class and its kind

mirrorVars == <<mirrorState, target, constructorFunction, instances, lastOp,
                extensible, proto, propertyTs, made>>

\* the mirror classes whose instances the repository's own code makes:
\* those of src/src/v0/polyfill.ts and those of src/src/mirrors
MirrorClasses ==
  {"v0.FunctionMirror", "v0.DataPropertyMirror", "v0.AccessorPropertyMirror",
   "DataPropertyMirror", "AccessorPropertyMirror"}

\* The kind a new mirror of a class has.  v0: the ObjectMirror constructor
\* sets "object" and FunctionMirror, which has no constructor, only
\* declares its kind; the property mirrors set "data" and "accessor".
\* mirrors/property.ts: PropertyMirror gives every property mirror the
\* kind "property" (first version) or "data" (second version).
KindOf(class, version) ==
  CASE class = "v0.FunctionMirror" -> "object"
    [] class = "v0.DataPropertyMirror" -> "data"
    [] class = "v0.AccessorPropertyMirror" -> "accessor"
    [] OTHER -> IF version = 1 THEN "property" ELSE "data"

\* createPropertyMirror(name, descriptor) of v0: the class of the mirror
\* for a property, none for a missing one
createPropertyMirror(p) ==
  CASE p.kind = "data" -> "v0.DataPropertyMirror"
    [] p.kind = "accessor" -> "v0.AccessorPropertyMirror"
    [] OTHER -> "none"

\* made, after a mirror of the class is constructed
Made(class) ==
  IF class = "none" THEN made
  ELSE [class |-> class, kind |-> KindOf(class, propertyTs)]

\* the target as an object
TargetObj == Obj(target, extensible, proto)

\* the latest operation: by a mirror method without a native counterpart
Op(name, res, chg) ==
  [op |-> name, state |-> mirrorState, result |-> res, changed |-> chg,
   native |-> "none", same |-> TRUE]

\* the latest operation: a v0 method that gave r (result and object) where
\* the native operation gives nat
V0Op(name, r, nat) ==
  [op |-> name, state |-> mirrorState, result |-> r.result,
   changed |-> (r.obj # TargetObj),
   native |-> nat.result, same |-> (r.obj = nat.obj)]

\* the target becomes the object o
TargetBecomes(o) ==
  /\ target' = o.props
  /\ extensible' = o.extensible
  /\ proto' = o.proto

\* type MirrorState = "decorating" | "decorated"
MirrorState == {"decorating", "decorated"}

\* new Mirror({ kind, state }), the target without properties, and
\* new ClassMirror(superclass), which has no constructor function yet
MirrorInit ==
  /\ mirrorState \in MirrorState
  /\ target = [k \in Keys |-> AbsentProp]
  /\ constructorFunction = Null
  /\ instances = 0
  /\ lastOp = [op |-> "none", state |-> "none", result |-> "none",
               changed |-> FALSE, native |-> "none", same |-> TRUE]
  /\ extensible = TRUE
  /\ proto = Null
  /\ propertyTs \in {1, 2}
  /\ made = [class |-> "none", kind |-> "none"]

\* the declaration the mirror stands for completes its initialization and
\* becomes available to the runtime
Decorated ==
  /\ mirrorState = "decorating"
  /\ mirrorState' = "decorated"
  /\ UNCHANGED <<target, constructorFunction, instances, lastOp,
                 extensible, proto, propertyTs, made>>

\* the property descriptors passed to defineProperty
PropertyDescriptors ==
  {[enumerable |-> "true", configurable |-> c, writable |-> "true"] :
     c \in {"true", "false"}}

\* ObjectMirror.defineProperty(propertyKey, descriptor) of
\* src/src/mirrors/object.ts, with a data descriptor of value v:
\* a DataPropertyMirror is made, then
\* Object.defineProperty(this.object, propertyKey, descriptor),
\* which throws a TypeError when the object refuses the definition
ObjectMirror_defineProperty(k, v, d) ==
  LET new == DataProp(v, d)
      r == Reflect_defineProperty(TargetObj, k, new) IN
  /\ made' = Made("DataPropertyMirror")
  /\ target' = r.obj.props
  /\ lastOp' = Op("defineProperty",
                  IF r.result = "true" THEN "ok" ELSE "TypeError",
                  target' # target)
  /\ UNCHANGED <<mirrorState, constructorFunction, instances, extensible,
                 proto, propertyTs>>

\* ClassMirror.setConstructorFunction(constructor) of src/src/v0/polyfill.ts
ClassMirror_setConstructorFunction(f) ==
  /\ constructorFunction' = f
  /\ made' = Made("v0.FunctionMirror")
  /\ lastOp' = Op("setConstructorFunction", "ok",
                  constructorFunction' # constructorFunction)
  /\ UNCHANGED <<mirrorState, target, instances, extensible, proto,
                 propertyTs>>

\* an argument the caller leaves out is undefined in the method, and
\* the method passes it on
Passed(arg) == IF arg = Absent THEN Undefined ELSE arg

\* a native operation gives an argument left out its default
Defaulted(arg, default) == IF arg = Absent THEN default ELSE arg

\* FunctionMirror.construct(argumentsList, newTarget) on the class's
\* constructorFunction: Reflect.construct(this.target, argumentsList,
\* newTarget).  Before setConstructorFunction the member is null and the
\* call a TypeError.
FunctionMirror_construct(newTarget) ==
  /\ instances < MaxInstances
  /\ IF constructorFunction = Null
       THEN /\ lastOp' = Op("construct", "TypeError", FALSE)
            /\ UNCHANGED instances
       ELSE LET r == Reflect_construct(constructorFunction, Passed(newTarget))
                nat == Reflect_construct(constructorFunction,
                                         Defaulted(newTarget, constructorFunction))
            IN /\ instances' = IF r = "object" THEN instances + 1 ELSE instances
               /\ lastOp' = [op |-> "construct", state |-> mirrorState,
                             result |-> IF r = "object" THEN "ok" ELSE r,
                             changed |-> (r = "object"),
                             native |-> IF nat = "object" THEN "ok" ELSE nat,
                             same |-> (r = nat)]
  /\ UNCHANGED <<mirrorState, target, constructorFunction, extensible, proto,
                 propertyTs, made>>

\* FunctionMirror.apply(thisArg, argumentsList) on the class's
\* constructorFunction: Reflect.apply(this.target, thisArg, argumentsList)
FunctionMirror_apply(thisArg) ==
  /\ constructorFunction # Null
  /\ LET r == Reflect_apply(constructorFunction, thisArg) IN
     lastOp' = [op |-> "apply", state |-> mirrorState, result |-> r,
                changed |-> FALSE,
                native |-> Reflect_apply(constructorFunction, thisArg),
                same |-> TRUE]
  /\ UNCHANGED <<mirrorState, target, constructorFunction, instances,
                 extensible, proto, propertyTs, made>>

\* what a v0 ObjectMirror method leaves alone
V0Frame == UNCHANGED <<mirrorState, constructorFunction, instances,
                       propertyTs, made>>

\* the descriptors passed to the v0 defineProperty: of a writable data
\* property, of one that is read-only and not configurable, of an accessor
V0Descriptors ==
  {DataProp("v1", [enumerable |-> "true", configurable |-> "true",
                   writable |-> "true"]),
   DataProp("v1", [enumerable |-> "true", configurable |-> "false",
                   writable |-> "false"]),
   AccessorProp("getter", "setter",
                [enumerable |-> "true", configurable |-> "true"])}

\* v0 ObjectMirror.defineProperty(propertyKey, descriptor):
\* Reflect.defineProperty, its result dropped, then a property mirror
\* made from the descriptor
V0_defineProperty(k, new) ==
  LET r == Reflect_defineProperty(TargetObj, k, new) IN
  /\ TargetBecomes(r.obj)
  /\ made' = Made(createPropertyMirror(new))
  /\ lastOp' = Op("v0.defineProperty", createPropertyMirror(new),
                  r.obj # TargetObj)
  /\ UNCHANGED <<mirrorState, constructorFunction, instances, propertyTs>>

\* v0 ObjectMirror.getOwnProperty(propertyKey): a property mirror made
\* from Reflect.getOwnPropertyDescriptor, undefined for a missing property
V0_getOwnProperty(k) ==
  /\ made' = Made(createPropertyMirror(target[k]))
  /\ lastOp' = Op("v0.getOwnProperty",
                  IF target[k].kind = "absent" THEN Undefined
                  ELSE createPropertyMirror(target[k]), FALSE)
  /\ UNCHANGED <<mirrorState, target, constructorFunction, instances,
                 extensible, proto, propertyTs>>

\* ObjectMirror.getOwnProperty(propertyKey) of src/src/mirrors/object.ts:
\* createPropertyMirror of mirrors/property.ts, which destructures the
\* descriptor first, a TypeError for a missing property
ObjectMirror_getOwnProperty(k) ==
  LET class == CASE target[k].kind = "data" -> "DataPropertyMirror"
                 [] target[k].kind = "accessor" -> "AccessorPropertyMirror"
                 [] OTHER -> "none" IN
  /\ made' = Made(class)
  /\ lastOp' = Op("getOwnProperty",
                  IF class = "none" THEN "TypeError" ELSE class, FALSE)
  /\ UNCHANGED <<mirrorState, target, constructorFunction, instances,
                 extensible, proto, propertyTs>>

\* v0 ObjectMirror.get(propertyKey, receiver?)
V0_get(k, receiver) ==
  LET r == Reflect_get(TargetObj, k, Passed(receiver))
      nat == Reflect_get(TargetObj, k, Defaulted(receiver, "target")) IN
  /\ TargetBecomes(r.obj)
  /\ lastOp' = V0Op("get", r, nat)
  /\ V0Frame

\* v0 ObjectMirror.set(propertyKey, value, receiver?)
V0_set(k, v, receiver) ==
  LET r == Reflect_set(TargetObj, k, v, Passed(receiver))
      nat == Reflect_set(TargetObj, k, v, Defaulted(receiver, "target")) IN
  /\ TargetBecomes(r.obj)
  /\ lastOp' = V0Op("set", r, nat)
  /\ V0Frame

\* v0 ObjectMirror.has(propertyKey)
V0_has(k) ==
  LET r == Reflect_has(TargetObj, k) IN
  /\ TargetBecomes(r.obj)
  /\ lastOp' = V0Op("has", r, Reflect_has(TargetObj, k))
  /\ V0Frame

\* v0 ObjectMirror.deleteProperty(propertyKey)
V0_deleteProperty(k) ==
  LET r == Reflect_deleteProperty(TargetObj, k) IN
  /\ TargetBecomes(r.obj)
  /\ lastOp' = V0Op("deleteProperty", r, Reflect_deleteProperty(TargetObj, k))
  /\ V0Frame

\* v0 ObjectMirror.ownKeys()
V0_ownKeys ==
  LET r == Reflect_ownKeys(TargetObj) IN
  /\ TargetBecomes(r.obj)
  /\ lastOp' = V0Op("ownKeys", r, Reflect_ownKeys(TargetObj))
  /\ V0Frame

\* v0 ObjectMirror.isExtensible()
V0_isExtensible ==
  LET r == Reflect_isExtensible(TargetObj) IN
  /\ TargetBecomes(r.obj)
  /\ lastOp' = V0Op("isExtensible", r, Reflect_isExtensible(TargetObj))
  /\ V0Frame

\* v0 ObjectMirror.preventExtensions()
V0_preventExtensions ==
  LET r == Reflect_preventExtensions(TargetObj) IN
  /\ TargetBecomes(r.obj)
  /\ lastOp' = V0Op("preventExtensions", r, Reflect_preventExtensions(TargetObj))
  /\ V0Frame

\* v0 ObjectMirror.getPrototype()
V0_getPrototype ==
  LET r == Reflect_getPrototypeOf(TargetObj) IN
  /\ TargetBecomes(r.obj)
  /\ lastOp' = V0Op("getPrototype", r, Reflect_getPrototypeOf(TargetObj))
  /\ V0Frame

\* v0 ObjectMirror.setPrototype(proto)
V0_setPrototype(pr) ==
  LET r == Reflect_setPrototypeOf(TargetObj, pr) IN
  /\ TargetBecomes(r.obj)
  /\ lastOp' = V0Op("setPrototype", r, Reflect_setPrototypeOf(TargetObj, pr))
  /\ V0Frame

----------------------------------------------------------------------------
(* Part C: the decorated declarations of the README.                       *)
(*                                                                         *)
(* Three renderings of a declaration with decorators d1 ... dn, written    *)
(* top to bottom (@F @G: d1 = F, d2 = G):                                  *)
(*   "design"   the Detailed Design (src/README.md 55-68), one decorator   *)
(*   "interop"  the explainer (src/unnamed/part_005 187-195), one decorator*)
(*   "desugar"  the desugarings (src/README.md 184-361)                    *)
(* The values passed along are names of objects: "Foo" the class, "desc0"  *)
(* the descriptor of the member, "new1".. the objects decorators return.   *)

\* the declarations that are desugared
Forms == {"class", "method", "accessor", "literal"}
Renderings == {"design", "interop", "desugar"}
\* the falsy values a decorator returns
Falsy == {Undefined, Null, "false"}
\* ToBoolean of a value passed along
Truthy(v) == v \notin Falsy
\* the object the i-th decorator of the list returns when it returns a new one
NewValue(i) == CASE i = 1 -> "new1" [] i = 2 -> "new2" [] OTHER -> "new3"

VARIABLES
  rend,       \* the rendering
  form,       \* the declaration
  rn,         \* the number of decorators
  rpc,        \* the position: "loop", "inDecorator", "define", "done"
  temp,       \* _temp / Foo / description / desc: the value passed along
  first,      \* the value the chain starts from
  rcalls,     \* the decorators called so far, in the order of the calls
  rarg,       \* the value passed in the latest decorator call
  rret,       \* the latest return: [type, value, previous]
  installed,  \* the descriptor of the member on the target, or "none"
  defs,       \* how often the member has been defined on the target
  redefined,  \* whether the last step defined the member
  rresult     \* the completion

readmeVars == <<rend, form, rn, rpc, temp, first, rcalls, rarg, rret, installed,
                defs, redefined, rresult>>

\* whether the declaration is a member with a descriptor
IsMember(f) == f \in {"method", "accessor", "literal"}

\* The state in which the first decorator is about to be called.
\* design, interop: a description object is built and nothing is defined.
\* desugar: the class body or the object literal has been evaluated, so a
\* member is on the target already; _temp is
\* Object.getOwnPropertyDescriptor(target, name) for a class member and
\* void 0 for the member of an object literal.
ReadmeInit ==
  /\ rend \in Renderings
  /\ form \in (IF rend = "desugar" THEN Forms ELSE {"method"})
  /\ rn \in (IF rend = "desugar" THEN 1..MaxDecorators ELSE {1})
  /\ rpc = "loop"
  /\ temp = (CASE rend # "desugar" -> "desc0"
               [] form = "class" -> "Foo"
               [] form = "literal" -> Undefined
               [] OTHER -> "desc0")
  /\ first = temp
  /\ rcalls = << >>
  /\ rarg = temp
  /\ rret = [type |-> "none", value |-> Undefined, previous |-> temp]
  /\ installed = (IF rend = "desugar" /\ IsMember(form) THEN "desc0" ELSE "none")
  /\ defs = (IF rend = "desugar" /\ IsMember(form) THEN 1 ELSE 0)
  /\ redefined = FALSE
  /\ rresult = "running"

\* the decorator called after `called` of the n decorators have been: the
\* innermost call of the nested expression is the last decorator's
Innermost(count, called) == count - called

\* the next decorator is called with the value passed along: G before F
ReadmeCall ==
  /\ rpc = "loop" /\ Len(rcalls) < rn
  /\ rcalls' = Append(rcalls, Innermost(rn, Len(rcalls)))
  /\ rarg' = temp
  /\ rpc' = "inDecorator"
  /\ UNCHANGED <<rend, form, rn, temp, first, rret, installed, defs,
                 redefined, rresult>>

\* x || y
Or(x, y) == IF Truthy(x) THEN x ELSE y

\* what a decorator returns: a falsy value, the value it was given, or a
\* new object
Returns(i, arg) == Falsy \cup {arg, NewValue(i)}

\* the decorator returns v: _temp = decorator(...) || _temp
ReadmeReturn(v) ==
  /\ rpc = "inDecorator"
  /\ v \in Returns(rcalls[Len(rcalls)], rarg)
  /\ rret' = [type |-> "normal", value |-> v, previous |-> temp]
  /\ temp' = Or(v, temp)
  /\ rpc' = "loop"
  /\ UNCHANGED <<rend, form, rn, first, rcalls, rarg, installed, defs,
                 redefined, rresult>>

\* the decorator throws, as one that sets descriptor.enumerable does when
\* the descriptor is undefined
ReadmeThrow ==
  /\ rpc = "inDecorator"
  /\ rret' = [type |-> "throw", value |-> Undefined, previous |-> temp]
  /\ rpc' = "done"
  /\ rresult' = "Error"
  /\ UNCHANGED <<rend, form, rn, temp, first, rcalls, rarg, installed, defs,
                 redefined>>

\* defineDecoratedProperty(target, { initializer, enumerable, configurable,
\* writable }) called as defineDecoratedProperty(Person.prototype, 'name',
\* description): the second argument is the name, its `initializer` is
\* undefined, and initializer() is a TypeError
defineDecoratedProperty(secondArgument) ==
  IF secondArgument = "name" THEN "TypeError" ELSE "normal"

\* The last step.  design: defineDecoratedProperty.  interop:
\* Object.defineProperty(target, name, desc).  desugar, a member:
\* if (_temp) Object.defineProperty(target, name, _temp); a class:
\* return Foo.
ReadmeDefine ==
  /\ rpc = "loop" /\ Len(rcalls) = rn
  /\ rpc' = "done"
  /\ LET defines ==
           CASE rend = "design" -> defineDecoratedProperty("name") = "normal"
             [] rend = "interop" -> TRUE
             [] OTHER -> IsMember(form) /\ Truthy(temp)
     IN /\ redefined' = defines
        /\ installed' = IF defines THEN temp ELSE installed
        /\ defs' = IF defines THEN defs + 1 ELSE defs
        /\ rresult' = IF rend = "design" THEN defineDecoratedProperty("name")
                                         ELSE "normal"
  /\ UNCHANGED <<rend, form, rn, temp, first, rcalls, rarg, rret>>

----------------------------------------------------------------------------
(* Part D: the memoize decorator of the README (src/README.md 97-129) on   *)
(* the accessor `name` of class Person.                                    *)
(*                                                                         *)
(* A string is the sequence of its words: "a b" is <<"a", "b">>, so that   *)
(* val.split(' ') and `${this.first} ${this.last}` are computed.           *)

\* the original getter is not called more often than this on an object
\* between two calls of the setter
MaxOriginalCalls == 2

\* the instances of Person
Persons == {"p1", "p2"}
\* the strings assigned to name
Names == {<<"a", "b">>, <<"a">>, <<"c", "d", "e">>}
\* the strings assigned to this.first directly
Firsts == {"x"}

\* let [first, last] = val.split(' ')
Split(val) ==
  [first |-> IF Len(val) >= 1 THEN val[1] ELSE Undefined,
   last |-> IF Len(val) >= 2 THEN val[2] ELSE Undefined]

\* get name() { return `${this.first} ${this.last}` }
OriginalGetter(f) == <<f.first, f.last>>

\* a table without the key `name`: Object.create(null)
EmptyTable == [made |-> TRUE, has |-> FALSE, value |-> << >>]
\* no table: memoized.get(obj) is undefined
NoTable == [made |-> FALSE, has |-> FALSE, value |-> << >>]

\* the mistake of keying the WeakMap by one object for all instances
SameKey(obj) == "p1"

\* the key of the WeakMap for an object: the object
WeakMapKey(obj) == obj

VARIABLES
  memoized,    \* the WeakMap: for each key its table, or NoTable
  persons,      \* first and last of each instance
  originalCalls, \* calls of the original getter on each instance since the
               \* setter was last called on it
  cached,      \* what the accessor of each instance last computed or was
               \* assigned: [has, value]
  lastAccess   \* the latest access: [op, obj, result, invoked, before]

memoVars == <<memoized, persons, originalCalls, cached, lastAccess>>

\* memoizationFor(obj): the table of obj, made when there is none
memoizationFor(obj) ==
  IF memoized[WeakMapKey(obj)].made THEN memoized[WeakMapKey(obj)]
                                    ELSE EmptyTable

\* new WeakMap(), and instances of Person: the class has no constructor
MemoInit ==
  /\ memoized = [o \in Persons |-> NoTable]
  /\ persons = [o \in Persons |-> [first |-> Undefined, last |-> Undefined]]
  /\ originalCalls = [o \in Persons |-> 0]
  /\ cached = [o \in Persons |-> [has |-> FALSE, value |-> << >>]]
  /\ lastAccess = [op |-> "none", obj |-> "none", result |-> << >>,
                   invoked |-> FALSE, before |-> [has |-> FALSE, value |-> << >>]]

\* descriptor.get with this = obj
MemoGet(obj) ==
  LET table == memoizationFor(obj)
      computed == OriginalGetter(persons[obj])
  IN IF table.has
       THEN /\ memoized' = [memoized EXCEPT ![WeakMapKey(obj)] = table]
            /\ lastAccess' = [op |-> "get", obj |-> obj, result |-> table.value,
                              invoked |-> FALSE, before |-> cached[obj]]
            /\ UNCHANGED <<persons, originalCalls, cached>>
       ELSE /\ originalCalls[obj] < MaxOriginalCalls
            /\ memoized' = [memoized EXCEPT ![WeakMapKey(obj)] =
                              [made |-> TRUE, has |-> TRUE, value |-> computed]]
            /\ originalCalls' = [originalCalls EXCEPT ![obj] = @ + 1]
            /\ cached' = [cached EXCEPT ![obj] = [has |-> TRUE, value |-> computed]]
            /\ lastAccess' = [op |-> "get", obj |-> obj, result |-> computed,
                              invoked |-> TRUE, before |-> cached[obj]]
            /\ UNCHANGED persons

\* descriptor.set with this = obj and a string val
MemoSet(obj, val) ==
  /\ persons' = [persons EXCEPT ![obj] = Split(val)]
  /\ memoized' = [memoized EXCEPT ![WeakMapKey(obj)] =
                    [made |-> TRUE, has |-> TRUE, value |-> val]]
  /\ originalCalls' = [originalCalls EXCEPT ![obj] = 0]
  /\ cached' = [cached EXCEPT ![obj] = [has |-> TRUE, value |-> val]]
  /\ lastAccess' = [op |-> "set", obj |-> obj, result |-> val,
                    invoked |-> FALSE, before |-> cached[obj]]

\* descriptor.set with this = obj and a val that is no string: val.split
\* is a TypeError, after memoizationFor(this) and before table[name] = val
MemoSetThrows(obj) ==
  /\ memoized' = [memoized EXCEPT ![WeakMapKey(obj)] = memoizationFor(obj)]
  /\ lastAccess' = [op |-> "setThrew", obj |-> obj, result |-> << >>,
                    invoked |-> FALSE, before |-> cached[obj]]
  /\ UNCHANGED <<persons, originalCalls, cached>>

\* this.first = w, past the accessor
FieldWrite(obj, w) ==
  /\ persons[obj].first # w
  /\ persons' = [persons EXCEPT ![obj].first = w]
  /\ lastAccess' = [op |-> "field", obj |-> obj, result |-> << >>,
                    invoked |-> FALSE, before |-> cached[obj]]
  /\ UNCHANGED <<memoized, originalCalls, cached>>

----------------------------------------------------------------------------
(* The specifications: Spec runs one decorated property definition,        *)
(* MirrorSpec the operations of the mirrors.                               *)

vars == <<defVars, mirrorVars, readmeVars, memoVars>>

\* a README declaration not begun
ReadmeIdle == ReadmeInit /\ rend = "interop"

\* what a decorated property definition leaves alone
otherVars == <<mirrorVars, readmeVars, memoVars>>
\* what the mirrors leave alone
fixedVars == <<defVars, readmeVars, memoVars>>

Init ==
  /\ DefInit
  /\ MirrorInit /\ mirrorState = "decorating" /\ propertyTs = 1
  /\ ReadmeIdle
  /\ MemoInit
Next ==
  \/ DecoratorExpressionAbrupt /\ UNCHANGED otherVars
  \/ CallDecorator /\ UNCHANGED otherVars
  \/ \E t \in Thunks : \E c \in Evaluate(t) :
        DecoratorCallsThunk(t, c) /\ UNCHANGED otherVars
  \/ \E k \in Keys : DecoratorDefines(k) /\ UNCHANGED otherVars
  \/ DecoratorThrows /\ UNCHANGED otherVars
  \/ \E mode \in {"undefined", "same", "fresh"}, e \in Edits :
        DecoratorReturns(mode, e) /\ UNCHANGED otherVars
  \/ ReadDescriptor /\ UNCHANGED otherVars
  \/ \E c \in Evaluate("nameThunk") : CallName(c) /\ UNCHANGED otherVars
  \/ \E c \in Evaluate("exprThunk") : Finish(c) /\ UNCHANGED otherVars
  \/ \E c \in Evaluate("nameThunk") : DecoratorGetter(c) /\ UNCHANGED otherVars
Spec == Init /\ [][Next]_vars

MirrorSpecInit ==
  DefInit /\ alg = "main" /\ n = 0 /\ MirrorInit /\ ReadmeIdle /\ MemoInit
MirrorSpecNext ==
  \/ Decorated /\ UNCHANGED fixedVars
  \/ \E k \in Keys, v \in Vals, d \in PropertyDescriptors :
        ObjectMirror_defineProperty(k, v, d) /\ UNCHANGED fixedVars
  \/ \E f \in Functions :
        ClassMirror_setConstructorFunction(f) /\ UNCHANGED fixedVars
  \/ \E nt \in NewTargets : FunctionMirror_construct(nt) /\ UNCHANGED fixedVars
MirrorSpec == MirrorSpecInit /\ [][MirrorSpecNext]_vars

\* V0Spec: the v0 mirrors of one target and one class, and the property
\* mirrors made for the target's properties
V0SpecInit == MirrorSpecInit /\ mirrorState = "decorating"
V0SpecNext ==
  \/ \E f \in Functions :
        ClassMirror_setConstructorFunction(f) /\ UNCHANGED fixedVars
  \/ \E nt \in NewTargets : FunctionMirror_construct(nt) /\ UNCHANGED fixedVars
  \/ \E a \in {"target", "other", Undefined} :
        FunctionMirror_apply(a) /\ UNCHANGED fixedVars
  \/ \E k \in Keys, new \in V0Descriptors :
        V0_defineProperty(k, new) /\ UNCHANGED fixedVars
  \/ \E k \in Keys : V0_getOwnProperty(k) /\ UNCHANGED fixedVars
  \/ \E k \in Keys : ObjectMirror_getOwnProperty(k) /\ UNCHANGED fixedVars
  \/ \E k \in Keys, r \in Receivers : V0_get(k, r) /\ UNCHANGED fixedVars
  \/ \E k \in Keys, v \in Vals, r \in Receivers :
        V0_set(k, v, r) /\ UNCHANGED fixedVars
  \/ \E k \in Keys : V0_has(k) /\ UNCHANGED fixedVars
  \/ \E k \in Keys : V0_deleteProperty(k) /\ UNCHANGED fixedVars
  \/ V0_ownKeys /\ UNCHANGED fixedVars
  \/ V0_isExtensible /\ UNCHANGED fixedVars
  \/ V0_preventExtensions /\ UNCHANGED fixedVars
  \/ V0_getPrototype /\ UNCHANGED fixedVars
  \/ \E pr \in Protos : V0_setPrototype(pr) /\ UNCHANGED fixedVars
V0Spec == V0SpecInit /\ [][V0SpecNext]_vars

\* ReadmeSpec runs one decorated declaration of the README
ReadmeSpecInit ==
  /\ DefInit /\ alg = "main" /\ n = 0
  /\ MirrorInit /\ mirrorState = "decorating" /\ propertyTs = 1
  /\ ReadmeInit
  /\ MemoInit
ReadmeSpecNext ==
  \/ ReadmeCall /\ UNCHANGED <<defVars, mirrorVars, memoVars>>
  \/ \E v \in Falsy \cup {"desc0", "Foo", "new1", "new2", "new3"} :
       ReadmeReturn(v) /\ UNCHANGED <<defVars, mirrorVars, memoVars>>
  \/ ReadmeThrow /\ UNCHANGED <<defVars, mirrorVars, memoVars>>
  \/ ReadmeDefine /\ UNCHANGED <<defVars, mirrorVars, memoVars>>
ReadmeSpec == ReadmeSpecInit /\ [][ReadmeSpecNext]_vars

\* MemoSpec reads and writes the memoized accessor of the instances
MemoSpecInit == MirrorSpecInit /\ mirrorState = "decorating" /\ propertyTs = 1
MemoSpecNext ==
  \/ \E o \in Persons : MemoGet(o) /\ UNCHANGED <<defVars, mirrorVars, readmeVars>>
  \/ \E o \in Persons, val \in Names :
       MemoSet(o, val) /\ UNCHANGED <<defVars, mirrorVars, readmeVars>>
  \/ \E o \in Persons : MemoSetThrows(o) /\ UNCHANGED <<defVars, mirrorVars, readmeVars>>
  \/ \E o \in Persons, w \in Firsts :
       FieldWrite(o, w) /\ UNCHANGED <<defVars, mirrorVars, readmeVars>>
MemoSpec == MemoSpecInit /\ [][MemoSpecNext]_vars

----------------------------------------------------------------------------
(* The properties.                                                         *)
(*                                                                         *)
(* Those of the decorated property definition leave aside the runs in      *)
(* which user code threw (a decorator, a decorator expression, the         *)
(* evaluation of PropertyName or of AssignmentExpression): the algorithm   *)
(* propagates the exception, ReturnIfAbrupt.                               *)

\* the target takes a new property at key: none is there, or a configurable one
Takes(ps, key) == ps[key].kind = "absent" \/ ps[key].configurable = "true"

\* C1: the decorators of [d1, ..., dn] are called in reverse order, dn
\* first and d1 last, each exactly once by the time the definition has
\* completed, and each is passed the descriptor that results from the step
\* before it, the initial descriptor for dn.
C1_ReverseOrderEachOnce ==
  /\ \A i \in 1..Len(calls) : calls[i] = n - i + 1
  /\ (pc = "done" /\ ~userAbrupt) => Len(calls) = n
  /\ pc = "inDecorator" =>
       lastArg = IF Len(calls) = 1 THEN initDesc
                 ELSE IF lastRet.undefined THEN lastRet.left ELSE lastRet.value

\* C2: once a decorator has returned, the current descriptor is the one it
\* was working on when it returned undefined, and the value it returned
\* otherwise, at every position of the list.
C2_ReturnReplacesDescriptor ==
  lastRet.type = "normal" =>
    desc = IF lastRet.undefined THEN lastRet.left ELSE lastRet.value

\* C3: a thunk evaluates its expression at most once to a value, and every
\* call that returns returns the value of that one evaluation, which is the
\* value the thunk holds.
C3_ThunkMemoized ==
  alg \in {"main", "pde"} =>
    \A t \in Thunks :
      /\ evals[t] <= 1
      /\ Cardinality(returned[t]) <= 1
      /\ IF thunkVal[t] = Empty
           THEN evals[t] = 0 /\ returned[t] = {}
           ELSE evals[t] = 1 /\ returned[t] = {thunkVal[t]}

\* the name thunk has been called by the algorithm and again by the getter
\* of the descriptor, and evaluated once
C3_Witness ==
  /\ alg \in {"main", "pde"}
  /\ step \in {"name", "last"} /\ desc.name = "nameThunk"
  /\ getterCalls = 1
  /\ evals["nameThunk"] = 1
  /\ propName \in returned["nameThunk"]
  /\ \/ algEvals = {}
     \/ algEvals = {[thunk |-> "exprThunk", ncalls |-> n]}

\* C4: the algorithm itself evaluates PropertyName and AssignmentExpression
\* only after every decorator of the list has been called, and the first
\* decorator is handed thunks that have not been evaluated.
C4_DecoratorsBeforeEvaluation ==
  /\ \A e \in algEvals : e.ncalls = n /\ rets = n /\ step # "loop"
  /\ (\/ pc = "loop" /\ Len(calls) = 0
      \/ pc = "inDecorator" /\ Len(calls) = 1 /\ effects = 0)
       => \A t \in Thunks : thunkVal[t] = Empty /\ evals[t] = 0

\* two decorators have run and the algorithm has then evaluated both
\* expressions
C4_Witness ==
  /\ n = 2 /\ rets = 2
  /\ algEvals = {[thunk |-> t, ncalls |-> 2] : t \in Thunks}
  /\ result = "normal"

\* C5: with a callable property.initializer in the final descriptor, the
\* Main Algorithm and PropertyDefinitionEvaluation alike call the
\* initializer once and define, at the key the final name thunk returned,
\* a data property with the initializer's result as value and the
\* enumerable, configurable and writable of the final descriptor.
C5_CallableInitializerDefinesData ==
  (/\ alg \in {"main", "pde"} /\ step = "last" /\ ~userAbrupt
   /\ IsCallable(desc.initializer)
   /\ Takes(propsAtLoopEnd, propName))
    => /\ result = "normal"
       /\ initCalls = 1
       /\ value \in returned["exprThunk"]
       /\ props[propName] = DataProp(value, desc)

\* C6: with a null property.initializer in the final descriptor the
\* definition returns normally, calls no initializer and leaves the own
\* properties of the object as the decorators left them.
C6_NullInitializerDefinesNothing ==
  (/\ alg \in {"main", "pde"} /\ step = "last"
   /\ desc.initializer = Null)
    => /\ result = "normal"
       /\ initCalls = 0
       /\ props = propsAtLoopEnd
       /\ fields = [k \in Keys |-> AbsentProp]

\* a definition with a null initializer has completed, and the accessor a
\* decorator installed is the one property of the object
C6_Witness ==
  /\ alg \in {"main", "pde"} /\ step = "last"
  /\ desc.initializer = Null
  /\ result = "normal"
  /\ propName \in Keys
  /\ \E k \in Keys : props[k].kind = "accessor"
  /\ \E k \in Keys : props[k].kind = "absent"

\* C7: an object initializer with neither get nor set is a TypeError, one
\* with a get or a set defines an accessor property with the initializer's
\* get and set, an initializer that is not callable, not an object and not
\* null is a TypeError, and a TypeError leaves the object's properties as
\* they were.
C7_ObjectAndOtherInitializers ==
  (alg \in {"main", "pde"} /\ step = "last" /\ ~userAbrupt) =>
    /\ desc.initializer \in {"objEmpty", "prim"} =>
         result = "TypeError" /\ props = propsAtLoopEnd
    /\ (desc.initializer = "accG" /\ Takes(propsAtLoopEnd, propName)) =>
         /\ result = "normal"
         /\ props[propName] = AccessorProp("initializer.get", Undefined, desc)

\* C8: decorate(type, target, decorators, Property(name, initializer)) with
\* a callable initializer and decorators that return the descriptor they
\* were given, or undefined, completes without throwing and defines name
\* on target with the value initializer(), through Reflect.defineField for
\* the type 'field' and through Object.defineProperty otherwise.
C8_DecorateDefines ==
  (/\ alg = "decorate" /\ pc = "done" /\ ~userAbrupt
   /\ IsCallable(initDesc.initializer)
   /\ fresh = 0 /\ desc = initDesc
   /\ Takes(props, "k1"))
    => /\ result = "normal"
       /\ value \in returned["exprThunk"]
       /\ IF ptype = "field"
            THEN via = "Reflect.defineField" /\ fields["k1"] = DataProp(value, desc)
            ELSE via = "Object.defineProperty" /\ props["k1"] = DataProp(value, desc)

\* C9: defineProperty on a mirror whose state is not "decorating" throws a
\* TypeError and leaves the properties of the target as they were, for
\* every key and descriptor.
C9_DefinePropertyOnlyWhileDecorating ==
  (lastOp.op = "defineProperty" /\ lastOp.state # "decorating")
    => lastOp.result = "TypeError" /\ ~lastOp.changed

\* C10: construct throws a TypeError whenever the state of the mirror is
\* "decorating", and setting the constructor function throws a TypeError
\* whenever it is not; in no state do both succeed.
C10_ConstructOnlyOnceDecorated ==
  /\ (lastOp.op = "construct" /\ lastOp.state = "decorating")
       => lastOp.result = "TypeError"
  /\ (lastOp.op = "setConstructorFunction" /\ lastOp.state # "decorating")
       => lastOp.result = "TypeError"

\* the mirror classes for data properties, and those for accessor properties
DataPropertyMirrors == {"v0.DataPropertyMirror", "DataPropertyMirror"}
AccessorPropertyMirrors == {"v0.AccessorPropertyMirror", "AccessorPropertyMirror"}
\* the class for accessor properties beside a class for data properties
AccessorBeside(class) ==
  IF class = "v0.DataPropertyMirror" THEN "v0.AccessorPropertyMirror"
                                     ELSE "AccessorPropertyMirror"

\* C11: every mirror made has the kind documented for its class: a
\* FunctionMirror "function", the mirror of an accessor property
\* "accessor", and the mirror of a data property a kind that the mirrors
\* of accessor properties of the same implementation do not have.
C11_KindIdentifiesMirror ==
  /\ made.class = "v0.FunctionMirror" => made.kind = "function"
  /\ made.class \in AccessorPropertyMirrors => made.kind = "accessor"
  /\ made.class \in DataPropertyMirrors =>
       made.kind # KindOf(AccessorBeside(made.class), propertyTs)

\* the methods of the v0 mirrors that restate a native operation
V0Ops ==
  {"get", "set", "has", "deleteProperty", "ownKeys", "isExtensible",
   "preventExtensions", "getPrototype", "setPrototype", "apply", "construct"}

\* C12: a method of a v0 mirror returns what the native Reflect operation
\* returns for the target and the arguments of the call, and leaves the
\* target as the native operation leaves it.
C12_V0MirrorsRestateReflect ==
  (lastOp.op \in V0Ops /\ lastOp.native # "none")
    => lastOp.result = lastOp.native /\ lastOp.same

\* C13: while a decorator of a method or accessor runs, the member is not
\* on the target; the member is defined only after the last decorator has
\* returned, and when the declaration is done it has been defined once.
C13_DecoratorsBeforeInstall ==
  IsMember(form) =>
    /\ rpc = "inDecorator" => (defs = 0 /\ installed = "none")
    /\ redefined => (rpc = "done" /\ Len(rcalls) = rn)
    /\ (rpc = "done" /\ rret.type # "throw") => defs = 1

\* C14: in the desugarings the decorators are called last to first, each
\* with the value the one before it produced, a falsy return keeps the
\* value, a member is redefined with the final value exactly when that is
\* truthy, and the first decorator of a member, of an object literal as
\* of a class, is given the descriptor of the member.
C14_DesugaringChain ==
  rend = "desugar" =>
    /\ \A i \in 1..Len(rcalls) : rcalls[i] = rn - i + 1
    /\ rpc = "inDecorator" =>
         rarg = (IF Len(rcalls) = 1 THEN first
                 ELSE IF Truthy(rret.value) THEN rret.value ELSE rret.previous)
    /\ (rpc = "loop" /\ rret.type = "normal") =>
         temp = (IF Truthy(rret.value) THEN rret.value ELSE rret.previous)
    /\ (rpc = "done" /\ rret.type # "throw" /\ IsMember(form)) =>
         /\ redefined <=> Truthy(temp)
         /\ redefined => installed = temp
    /\ (IsMember(form) /\ Len(rcalls) > 0) => first = "desc0"

\* C15: on every instance the original getter is called at most once
\* between two calls of the setter; a read of an instance whose accessor
\* was assigned or read before returns that value without calling the
\* original getter, so the value assigned last when the setter was called
\* since; and a read of an instance with nothing cached calls the original
\* getter on that instance, whatever is cached for the others.
C15_MemoizePerInstance ==
  /\ \A o \in Persons : originalCalls[o] <= 1
  /\ (lastAccess.op = "get" /\ lastAccess.before.has) =>
       /\ lastAccess.result = lastAccess.before.value
       /\ ~lastAccess.invoked
  /\ (lastAccess.op = "get" /\ ~lastAccess.before.has) =>
       /\ lastAccess.invoked
       /\ lastAccess.result = OriginalGetter(persons[lastAccess.obj])

\* an instance is read after its setter was called with a value that the
\* original getter would not return, while another value is cached for
\* the other instance
C15_Witness ==
  /\ lastAccess.op = "get" /\ lastAccess.before.has
  /\ lastAccess.result # OriginalGetter(persons[lastAccess.obj])
  /\ lastAccess.result \in Names
  /\ \E q \in Persons \ {lastAccess.obj} :
       cached[q].has /\ cached[q].value # lastAccess.result

=============================================================================
